---- MODULE Spec2Model ----
(***************************************************************************)
(* A model of diagram-master: the Draw.io XML generator                    *)
(* (src/drawio-generator.js, class DrawioGenerator, lines 1-465) and the   *)
(* MCP request handler that drives it (src/index.js, class                 *)
(* DrawioMCPServer).                                                       *)
(*                                                                         *)
(* Conventions of the model                                                *)
(*   - a JavaScript string that the code inspects (labels, file names) is  *)
(*     a sequence of characters or of path atoms; a string that is only    *)
(*     compared (ids, type tags) is a TLA+ string;                         *)
(*   - a cell id is the number getNextId() turns into its decimal string;  *)
(*   - Null stands for null/undefined in an id slot, NoNum for an omitted  *)
(*     (undefined) or NaN number, "" for an omitted string;                *)
(*   - a plain object used as a map ({}[key]) answers an own property, or  *)
(*     else a member inherited from Object.prototype, or else undefined.   *)
(***************************************************************************)
EXTENDS Integers, Sequences, FiniteSets, TLC

VARIABLES
    cellId,     \* this.generator.cellId: the one DrawioGenerator of the process
    files,      \* the file system: path -> content
    now,        \* the wall clock read by new Date()
    pc,         \* position of the CallToolRequestSchema handler
    request,    \* the request being handled
    fullPath,   \* the handler's local fullPath
    xmlContent, \* the handler's local xmlContent (the builder's result)
    response,   \* what the handler returned (or that it threw)
    served,     \* log of the finished requests, with the document each built
    filesAtCall,\* the file system as it was when the current request arrived
    elements    \* the builder's local elements, as handed to generateDiagram

vars == <<cellId, files, now, pc, request, fullPath, xmlContent, response, served, filesAtCall,
          elements>>

----------------------------------------------------------------------------
(* Bounds of the model *)

MaxSteps == 2        \* longest steps / nodes / entities / participants list
MaxConns == 1        \* longest connections / relationships / interactions list
MaxRequests == 2     \* requests one explored run of the server handles
MaxPrior == 1        \* ids a generator may have handed out before a direct builder call
MaxClock == 1        \* last tick of the wall clock
MaxLabel == 4        \* longest label handed to a single createShape call
MaxInteractions == 2 \* longest interactions list of a sequence diagram drawn alone
MaxEntities == 4     \* longest entities list of an ERD drawn alone
MaxDeclared == 3     \* longest steps list of a flowchart with repeated ids

----------------------------------------------------------------------------
(* JavaScript values *)

Null == -1           \* null / undefined where a cell id is expected
ProtoMember == -2    \* a member inherited from Object.prototype (a function: truthy)
NoNum == -1          \* an omitted number (undefined), or NaN

\* The names every plain object inherits; "constructor" stands for all of
\* them (toString, valueOf, hasOwnProperty, ...).
ObjectPrototypeKeys == {"constructor"}

\* obj[key] on a plain object whose own properties are the function obj.
Get(obj, key) ==
    IF key \in DOMAIN obj THEN obj[key]
    ELSE IF key \in ObjectPrototypeKeys THEN ProtoMember
    ELSE Null

Truthy(v) == v # Null

\* v || d for a number: 0, undefined and NaN are falsy.
OrNum(v, d) == IF v = NoNum \/ v = 0 THEN d ELSE v

\* (index + 1).toString() for the positions the bounds allow.
Digits == <<"1", "2", "3", "4", "5", "6", "7", "8", "9">>

IsArrayIndex(key) == \E n \in DOMAIN Digits : Digits[n] = key

Range(s) == {s[i] : i \in DOMAIN s}

RECURSIVE SeqsUpTo(_, _)
SeqsUpTo(S, n) ==
    IF n = 0 THEN {<<>>}
    ELSE LET shorter == SeqsUpTo(S, n - 1)
         IN  shorter \cup {Append(s, x) : s \in {t \in shorter : Len(t) = n - 1}, x \in S}

Max(S) == CHOOSE m \in S : \A n \in S : n <= m

----------------------------------------------------------------------------
(* DrawioGenerator: cells *)

\* text.replace(/c/g, entity): every occurrence of the character c, left to
\* right, replaced by the characters of entity.
RECURSIVE replaceAll(_, _, _)
replaceAll(text, c, entity) ==
    IF text = <<>> THEN <<>>
    ELSE (IF Head(text) = c THEN entity ELSE <<Head(text)>>) \o replaceAll(Tail(text), c, entity)

amp == <<"&", "a", "m", "p", ";">>
lt == <<"&", "l", "t", ";">>
gt == <<"&", "g", "t", ";">>
quot == <<"&", "q", "u", "o", "t", ";">>
apos == <<"&", "a", "p", "o", "s", ";">>

\* escapeXml with the ampersand replaced last instead of first.
escapeXml_AmpLast(text) ==
    replaceAll(replaceAll(replaceAll(replaceAll(replaceAll(text,
        "<", lt), ">", gt), "\"", quot), "'", apos), "&", amp)

\* escapeXml: the five global replaces, in the order of the code (& first).
escapeXml(text) ==
    replaceAll(replaceAll(replaceAll(replaceAll(replaceAll(text,
        "&", amp), "<", lt), ">", gt), "\"", quot), "'", apos)

\* The shape registry of the constructor: kind -> base style.
shapes ==
    [rectangle |-> "rounded=0;whiteSpace=wrap;html=1;",
     roundedRectangle |-> "rounded=1;whiteSpace=wrap;html=1;",
     ellipse |-> "ellipse;whiteSpace=wrap;html=1;",
     diamond |-> "rhombus;whiteSpace=wrap;html=1;",
     parallelogram |-> "shape=parallelogram;perimeter=parallelogramPerimeter;whiteSpace=wrap;html=1;",
     cylinder |-> "shape=cylinder3;whiteSpace=wrap;html=1;boundedLbl=1;backgroundOutline=1;",
     hexagon |-> "shape=hexagon;perimeter=hexagonPerimeter2;whiteSpace=wrap;html=1;",
     cloud |-> "ellipse;shape=cloud;whiteSpace=wrap;html=1;",
     document |-> "shape=document;whiteSpace=wrap;html=1;boundedLbl=1;",
     process |-> "rounded=0;whiteSpace=wrap;html=1;",
     decision |-> "rhombus;whiteSpace=wrap;html=1;",
     data |-> "shape=parallelogram;perimeter=parallelogramPerimeter;whiteSpace=wrap;html=1;",
     terminator |-> "rounded=1;whiteSpace=wrap;html=1;arcSize=50;",
     delay |-> "shape=delay;whiteSpace=wrap;html=1;",
     database |-> "shape=cylinder3;whiteSpace=wrap;html=1;boundedLbl=1;backgroundOutline=1;",
     actor |-> "shape=umlActor;verticalLabelPosition=bottom;verticalAlign=top;html=1;",
     note |-> "shape=note;whiteSpace=wrap;html=1;backgroundOutline=1;"]

\* this.shapes[type] || this.shapes.rectangle
shapeStyle(type) == IF type \in DOMAIN shapes THEN shapes[type] ELSE shapes["rectangle"]

connectorStyle == "edgeStyle=orthogonalEdgeStyle;rounded=0;orthogonalLoop=1;jettySize=auto;html=1;"

\* getNextId with the increment lost: this.cellId.toString() for this.cellId++.
getNextId_NoIncrement(counter) == [id |-> counter, cellId |-> counter]

\* getNextId: returns the counter, then increments it.
getNextId(counter) == [id |-> counter, cellId |-> counter + 1]

\* createCell: the cell with the given id when one is passed, else with the
\* next id. The result carries the counter after the call.
createCell(counter, value, style, geom, id, vertex, edge, source, target) ==
    LET alloc == IF id # Null THEN [id |-> id, cellId |-> counter] ELSE getNextId(counter)
    IN  [cell |-> [id |-> alloc.id,
                   value |-> escapeXml(value),
                   style |-> style,
                   vertex |-> vertex,
                   edge |-> edge,
                   parent |-> 1,
                   source |-> source,
                   target |-> target,
                   x |-> geom.x, y |-> geom.y,
                   width |-> geom.width, height |-> geom.height],
         cellId |-> alloc.cellId]

\* createShape: width = 120 and height = 60 when the caller passes undefined.
createShape(counter, label, type, x, y, width, height) ==
    createCell(counter, label, shapeStyle(type),
               [x |-> x, y |-> y,
                width |-> IF width = NoNum THEN 120 ELSE width,
                height |-> IF height = NoNum THEN 60 ELSE height],
               Null, TRUE, FALSE, Null, Null)

\* createConnector: relative geometry, no coordinates of its own.
createConnector(counter, sourceId, targetId, label, style) ==
    createCell(counter, label, style,
               [x |-> NoNum, y |-> NoNum, width |-> NoNum, height |-> NoNum],
               Null, FALSE, TRUE, sourceId, targetId)

\* The two structural cells of the document envelope.
RootCell(id, parent) ==
    [id |-> id, value |-> <<>>, style |-> "", vertex |-> FALSE, edge |-> FALSE,
     parent |-> parent, source |-> Null, target |-> Null,
     x |-> NoNum, y |-> NoNum, width |-> NoNum, height |-> NoNum]

\* generateDiagram with the layer cell (id 1) left out of the envelope.
generateDiagram_NoLayerCell(elems, time) ==
    [modified |-> time, cells |-> <<RootCell(0, Null)>> \o elems]

\* generateDiagram: the envelope (with the modification time) around the
\* element list.
generateDiagram(elems, time) ==
    [modified |-> time, cells |-> <<RootCell(0, Null), RootCell(1, 0)>> \o elems]

----------------------------------------------------------------------------
(* Arguments that may be missing *)

\* An array argument: the array, or undefined.
Arr(items) == [defined |-> TRUE, items |-> items]

Undefined == [defined |-> FALSE, items |-> <<>>]

\* data.<name> of a request's data object.
Field(data, name) == IF name \in DOMAIN data THEN Arr(data[name]) ELSE Undefined

\* a || [] for an array argument
OrEmpty(a) == IF a.defined THEN a ELSE Arr(<<>>)

\* The characters of a name used as a label.
Chars(name) ==
    IF name = "constructor"
    THEN <<"c", "o", "n", "s", "t", "r", "u", "c", "t", "o", "r">>
    ELSE IF name = "" THEN <<>> ELSE <<name>>

\* What a builder hands back: the element list it built (elements), the
\* generator's counter afterwards (cellId), and whether it threw instead of
\* returning (threw; the counter keeps what the run had allocated).
Built(elems, counter) == [threw |-> FALSE, elements |-> elems, cellId |-> counter]

Thrown(counter) == [threw |-> TRUE, elements |-> <<>>, cellId |-> counter]

----------------------------------------------------------------------------
(* createNetworkDiagram *)

\* The connection loop: a connector for every connection whose two lookups
\* are truthy. acc = [elements, cellId].
RECURSIVE connectAll(_, _, _, _)
connectAll(conns, ids, style, acc) ==
    IF conns = <<>> THEN acc
    ELSE LET conn == Head(conns)
             sourceId == Get(ids, conn.from)
             targetId == Get(ids, conn.to)
             made == createConnector(acc.cellId, sourceId, targetId, conn.label, style)
         IN  connectAll(Tail(conns), ids, style,
                 IF Truthy(sourceId) /\ Truthy(targetId)
                 THEN [elements |-> Append(acc.elements, made.cell), cellId |-> made.cellId]
                 ELSE acc)

\* The node loop. acc = [elements, ids, cellId].
RECURSIVE networkNodes(_, _)
networkNodes(nodes, acc) ==
    IF nodes = <<>> THEN acc
    ELSE LET node == Head(nodes)
             label == IF node.label = <<>> THEN <<"N", "o", "d", "e">> ELSE node.label
             shape == createShape(acc.cellId, label,
                                  IF node.type = "" THEN "rectangle" ELSE node.type,
                                  OrNum(node.x, 100), OrNum(node.y, 100),
                                  OrNum(node.width, 120), OrNum(node.height, 60))
         IN  networkNodes(Tail(nodes),
                 [elements |-> Append(acc.elements, shape.cell),
                  ids |-> (node.id :> shape.cell.id) @@ acc.ids,
                  cellId |-> shape.cellId])

createNetworkDiagram(counter, nodes, connections) ==
    IF ~nodes.defined THEN Thrown(counter)
    ELSE LET placed == networkNodes(nodes.items,
                           [elements |-> <<>>, ids |-> <<>>, cellId |-> counter])
         IN  IF ~connections.defined THEN Thrown(placed.cellId)
             ELSE LET done == connectAll(connections.items, placed.ids, connectorStyle,
                                  [elements |-> placed.elements, cellId |-> placed.cellId])
                  IN  Built(done.elements, done.cellId)

----------------------------------------------------------------------------
(* createERD *)

erdStartX == 100
erdStartY == 100
entityWidth == 160
attributeHeight == 26
headerHeight == 30
spacingX == 250
spacingY == 200
itemsPerRow == 3

headerStyle == "rounded=0;whiteSpace=wrap;html=1;fillColor=#f5f5f5;fontWeight=bold;"
attrStyle == "rounded=0;whiteSpace=wrap;html=1;align=left;spacingLeft=10;"
erdConnectorStyle == "edgeStyle=orthogonalEdgeStyle;rounded=0;orthogonalLoop=1;jettySize=auto;html=1;endArrow=none;startArrow=none;"

\* The attribute loop of one entity. acc = [elements, cellId].
RECURSIVE erdAttributes(_, _, _, _, _)
erdAttributes(attrs, attrIndex, currentX, currentY, acc) ==
    IF attrIndex >= Len(attrs) THEN acc
    ELSE LET attrY == currentY + headerHeight + (attrIndex * attributeHeight)
             made == createShape(acc.cellId, attrs[attrIndex + 1], "rectangle",
                                 currentX, attrY, entityWidth, attributeHeight)
         IN  erdAttributes(attrs, attrIndex + 1, currentX, currentY,
                 [elements |-> Append(acc.elements, [made.cell EXCEPT !.style = attrStyle]),
                  cellId |-> made.cellId])

\* The entity loop; index is 0-based. acc = [elements, ids, cellId, currentX, currentY].
RECURSIVE erdEntities(_, _, _)
erdEntities(entities, index, acc) ==
    IF index >= Len(entities) THEN acc
    ELSE LET entity == entities[index + 1]
             wrap == index > 0 /\ index % itemsPerRow = 0
             currentX == IF wrap THEN erdStartX ELSE acc.currentX
             currentY == IF wrap THEN acc.currentY + spacingY ELSE acc.currentY
             header == createShape(acc.cellId, entity.name, "rectangle",
                                   currentX, currentY, entityWidth, headerHeight)
             withHeader == [elements |-> Append(acc.elements,
                                            [header.cell EXCEPT !.style = headerStyle]),
                            cellId |-> header.cellId]
             withAttrs == erdAttributes(entity.attributes, 0, currentX, currentY, withHeader)
         IN  erdEntities(entities, index + 1,
                 [elements |-> withAttrs.elements,
                  ids |-> (entity.id :> header.cell.id) @@ acc.ids,
                  cellId |-> withAttrs.cellId,
                  currentX |-> currentX + spacingX,
                  currentY |-> currentY])

createERD(counter, entities, relationships) ==
    IF ~entities.defined THEN Thrown(counter)
    ELSE LET placed == erdEntities(entities.items, 0,
                           [elements |-> <<>>, ids |-> <<>>, cellId |-> counter,
                            currentX |-> erdStartX, currentY |-> erdStartY])
         IN  IF ~relationships.defined THEN Thrown(placed.cellId)
             ELSE LET done == connectAll(relationships.items, placed.ids, erdConnectorStyle,
                                  [elements |-> placed.elements, cellId |-> placed.cellId])
                  IN  Built(done.elements, done.cellId)

----------------------------------------------------------------------------
(* createSequenceDiagram *)

participantSpacing == 200
interactionSpacing == 60
topMargin == 50
lifelineWidth == 100
activationWidth == 10
activationHeight == 20

lifelineStyle == "shape=umlLifeline;perimeter=lifelinePerimeter;whiteSpace=wrap;html=1;container=1;collapsible=0;recursiveResize=0;outlineConnect=0;"
pointStyle == "shape=ellipse;fillColor=none;strokeColor=none;resizable=0;"
activationStyle == "html=1;whiteSpace=wrap;fillColor=#ffffff;"
requestEdgeStyle == "html=1;verticalAlign=bottom;endArrow=block;edgeStyle=elbowEdgeStyle;elbow=vertical;curved=0;rounded=0;endFill=1;"
replyEdgeStyle == "html=1;verticalAlign=bottom;endArrow=block;edgeStyle=elbowEdgeStyle;elbow=vertical;curved=0;rounded=0;dashed=1;endArrow=open;"

\* The participant loop; index is 0-based. participantIds[p] = {id, x}: ids
\* holds the id, xs the centre x. acc = [elements, ids, xs, cellId].
RECURSIVE seqParticipants(_, _, _, _)
seqParticipants(participants, index, lifelineHeight, acc) ==
    IF index >= Len(participants) THEN acc
    ELSE LET participant == participants[index + 1]
             x == 100 + (index * participantSpacing)
             lifeline == createShape(acc.cellId, Chars(participant), "umlLifeline",
                                     x, topMargin, lifelineWidth, lifelineHeight)
         IN  seqParticipants(participants, index + 1, lifelineHeight,
                 [elements |-> Append(acc.elements,
                                  [lifeline.cell EXCEPT !.style = lifelineStyle]),
                  ids |-> (participant :> lifeline.cell.id) @@ acc.ids,
                  xs |-> (participant :> x + (lifelineWidth \div 2)) @@ acc.xs,
                  cellId |-> lifeline.cellId])

\* source.x of a looked-up participant: undefined on an inherited member.
CentreX(xs, key) == IF key \in DOMAIN xs THEN xs[key] ELSE NoNum

\* A number minus a constant; NaN when the number is undefined.
Minus(v, d) == IF v = NoNum THEN NoNum ELSE v - d

\* seqInteraction that pushes the two anchor points after the activation
\* bars, though their ids were allocated first.
seqInteraction_PointsAfterBars(counter, interaction, sourceX, targetX, currentY) ==
    LET sourcePointId == getNextId(counter)
        targetPointId == getNextId(sourcePointId.cellId)
        geomAt(x) == [x |-> x, y |-> currentY, width |-> 0, height |-> 0]
        sourcePoint == createCell(targetPointId.cellId, <<>>, pointStyle, geomAt(sourceX),
                                  sourcePointId.id, TRUE, FALSE, Null, Null)
        targetPoint == createCell(sourcePoint.cellId, <<>>, pointStyle, geomAt(targetX),
                                  targetPointId.id, TRUE, FALSE, Null, Null)
        sourceActivation == createShape(targetPoint.cellId, <<>>, "rectangle",
                                Minus(sourceX, activationWidth \div 2), currentY - 10,
                                activationWidth, activationHeight)
        targetActivation == createShape(sourceActivation.cellId, <<>>, "rectangle",
                                Minus(targetX, activationWidth \div 2), currentY - 10,
                                activationWidth, activationHeight)
        connector == createConnector(targetActivation.cellId,
                         sourceActivation.cell.id, targetActivation.cell.id,
                         interaction.message,
                         IF interaction.dashed THEN replyEdgeStyle ELSE requestEdgeStyle)
    IN  [elements |-> <<[sourceActivation.cell EXCEPT !.style = activationStyle],
                        [targetActivation.cell EXCEPT !.style = activationStyle],
                        sourcePoint.cell, targetPoint.cell,
                        connector.cell>>,
         cellId |-> connector.cellId]

\* The five elements of one drawn interaction: two anchor points with
\* pre-allocated ids, two activation bars, and the connector between the bars.
seqInteraction(counter, interaction, sourceX, targetX, currentY) ==
    LET sourcePointId == getNextId(counter)
        targetPointId == getNextId(sourcePointId.cellId)
        geomAt(x) == [x |-> x, y |-> currentY, width |-> 0, height |-> 0]
        sourcePoint == createCell(targetPointId.cellId, <<>>, pointStyle, geomAt(sourceX),
                                  sourcePointId.id, TRUE, FALSE, Null, Null)
        targetPoint == createCell(sourcePoint.cellId, <<>>, pointStyle, geomAt(targetX),
                                  targetPointId.id, TRUE, FALSE, Null, Null)
        sourceActivation == createShape(targetPoint.cellId, <<>>, "rectangle",
                                Minus(sourceX, activationWidth \div 2), currentY - 10,
                                activationWidth, activationHeight)
        targetActivation == createShape(sourceActivation.cellId, <<>>, "rectangle",
                                Minus(targetX, activationWidth \div 2), currentY - 10,
                                activationWidth, activationHeight)
        connector == createConnector(targetActivation.cellId,
                         sourceActivation.cell.id, targetActivation.cell.id,
                         interaction.message,
                         IF interaction.dashed THEN replyEdgeStyle ELSE requestEdgeStyle)
    IN  [elements |-> <<sourcePoint.cell, targetPoint.cell,
                        [sourceActivation.cell EXCEPT !.style = activationStyle],
                        [targetActivation.cell EXCEPT !.style = activationStyle],
                        connector.cell>>,
         cellId |-> connector.cellId]

\* seqInteractions with currentY advanced for every declared interaction,
\* drawn or not.
RECURSIVE seqInteractions_AlwaysAdvance(_, _, _, _)
seqInteractions_AlwaysAdvance(interactions, ids, xs, acc) ==
    IF interactions = <<>> THEN acc
    ELSE LET interaction == Head(interactions)
             source == Get(ids, interaction.from)
             target == Get(ids, interaction.to)
             drawn == seqInteraction(acc.cellId, interaction,
                          CentreX(xs, interaction.from), CentreX(xs, interaction.to),
                          acc.currentY)
         IN  seqInteractions_AlwaysAdvance(Tail(interactions), ids, xs,
                 IF Truthy(source) /\ Truthy(target)
                 THEN [elements |-> acc.elements \o drawn.elements,
                       cellId |-> drawn.cellId,
                       currentY |-> acc.currentY + interactionSpacing]
                 ELSE [acc EXCEPT !.currentY = acc.currentY + interactionSpacing])

\* The interaction loop. acc = [elements, cellId, currentY].
RECURSIVE seqInteractions(_, _, _, _)
seqInteractions(interactions, ids, xs, acc) ==
    IF interactions = <<>> THEN acc
    ELSE LET interaction == Head(interactions)
             source == Get(ids, interaction.from)
             target == Get(ids, interaction.to)
             drawn == seqInteraction(acc.cellId, interaction,
                          CentreX(xs, interaction.from), CentreX(xs, interaction.to),
                          acc.currentY)
         IN  seqInteractions(Tail(interactions), ids, xs,
                 IF Truthy(source) /\ Truthy(target)
                 THEN [elements |-> acc.elements \o drawn.elements,
                       cellId |-> drawn.cellId,
                       currentY |-> acc.currentY + interactionSpacing]
                 ELSE acc)

createSequenceDiagram(counter, participants, interactions) ==
    IF ~interactions.defined \/ ~participants.defined THEN Thrown(counter)
    ELSE LET lifelineHeight == Len(interactions.items) * interactionSpacing + 100
             placed == seqParticipants(participants.items, 0, lifelineHeight,
                           [elements |-> <<>>, ids |-> <<>>, xs |-> <<>>, cellId |-> counter])
             done == seqInteractions(interactions.items, placed.ids, placed.xs,
                         [elements |-> placed.elements, cellId |-> placed.cellId,
                          currentY |-> topMargin + 80])
         IN  Built(done.elements, done.cellId)

----------------------------------------------------------------------------
(* createFlowchart *)

flowStartX == 400
flowStartY == 50
levelHeight == 120
nodeSpacing == 160

\* step.id || (index + 1).toString(), for the i-th step (1-based here).
effectiveId(steps, i) == IF steps[i].id # "" THEN steps[i].id ELSE Digits[i]

\* stepMap[id] = {...}: the assignment creates the own key id, except for
\* the key "__proto__", where it runs the setter inherited from
\* Object.prototype: the prototype of stepMap is replaced and no own key is
\* created.
OwnKey(id) == id # "__proto__"

\* The keys of stepMap in the order they were first inserted.
RECURSIVE insertionKeys(_, _, _)
insertionKeys(steps, i, acc) ==
    IF i > Len(steps) THEN acc
    ELSE insertionKeys(steps, i + 1,
             IF effectiveId(steps, i) \in Range(acc) \/ ~OwnKey(effectiveId(steps, i))
             THEN acc
             ELSE Append(acc, effectiveId(steps, i)))

\* Object.keys(stepMap): array-index keys first, in ascending numeric order,
\* then the other keys in insertion order.
objectKeys(steps) ==
    LET inserted == insertionKeys(steps, 1, <<>>)
    IN  SelectSeq(Digits, LAMBDA d : d \in Range(inserted))
        \o SelectSeq(inserted, LAMBDA k : ~IsArrayIndex(k))

\* stepMap[id] for its own keys: the last declared step with that
\* effective id.
stepMap(steps) ==
    [k \in {id \in {effectiveId(steps, i) : i \in DOMAIN steps} : OwnKey(id)} |->
        steps[Max({i \in DOMAIN steps : effectiveId(steps, i) = k})]]

\* Truthiness of obj[key] for an object whose own values are objects.
Defined(keys, key) == key \in keys \/ key \in ObjectPrototypeKeys

\* The connection loop of graph population. A connection whose two lookups
\* are truthy is pushed; pushing onto an inherited member (not an array)
\* throws. acc = [graph, reverseGraph, threw].
RECURSIVE populateGraph(_, _, _)
populateGraph(conns, keys, acc) ==
    IF conns = <<>> \/ acc.threw THEN acc
    ELSE LET conn == Head(conns)
         IN  populateGraph(Tail(conns), keys,
                 IF Defined(keys, conn.from) /\ Defined(keys, conn.to)
                 THEN IF conn.from \in keys /\ conn.to \in keys
                      THEN [graph |-> [acc.graph EXCEPT ![conn.from] = Append(@, conn.to)],
                            reverseGraph |->
                                [acc.reverseGraph EXCEPT ![conn.to] = Append(@, conn.from)],
                            threw |-> FALSE]
                      ELSE [acc EXCEPT !.threw = TRUE]
                 ELSE acc)

\* The sequential default: ids[i] -> ids[i + 1] over Object.keys(stepMap).
sequentialGraph(ids) ==
    [graph |-> [k \in Range(ids) |->
                   IF \E i \in 1..(Len(ids) - 1) : ids[i] = k
                   THEN <<ids[(CHOOSE i \in 1..(Len(ids) - 1) : ids[i] = k) + 1]>>
                   ELSE <<>>],
     reverseGraph |-> [k \in Range(ids) |->
                   IF \E i \in 2..Len(ids) : ids[i] = k
                   THEN <<ids[(CHOOSE i \in 2..Len(ids) : ids[i] = k) - 1]>>
                   ELSE <<>>],
     threw |-> FALSE]

\* connections && connections.length > 0
declared(connections) == connections.defined /\ Len(connections.items) > 0

\* graph and reverseGraph after "Build graph" and "Populate graph".
flowGraph(steps, connections) ==
    LET ids == objectKeys(steps)
        empty == [k \in Range(ids) |-> <<>>]
    IN  IF declared(connections)
        THEN populateGraph(connections.items, Range(ids),
                 [graph |-> empty, reverseGraph |-> empty, threw |-> FALSE])
        ELSE sequentialGraph(ids)

\* flowRoots that keeps only the first key with no incoming edge.
flowRoots_FirstOnly(ids, reverseGraph) ==
    LET roots == SelectSeq(ids, LAMBDA k : Len(reverseGraph[k]) = 0)
    IN  IF Len(ids) = 0 THEN <<>>
        ELSE IF Len(roots) = 0 THEN <<ids[1]>> ELSE <<roots[1]>>

\* The roots: the keys with no incoming edge, or else the first key.
flowRoots(ids, reverseGraph) ==
    LET roots == SelectSeq(ids, LAMBDA k : Len(reverseGraph[k]) = 0)
    IN  IF Len(roots) = 0 /\ Len(ids) > 0 THEN <<ids[1]>> ELSE roots

\* pushAtLevel that starts the row afresh on every push:
\* nodesByLevel[level] = [id].
pushAtLevel_Overwrite(nodesByLevel, level, id) ==
    (level :> <<id>>) @@ nodesByLevel

\* nodesByLevel[level].push(id), creating the row when it is missing.
pushAtLevel(nodesByLevel, level, id) ==
    IF level \in DOMAIN nodesByLevel
    THEN [nodesByLevel EXCEPT ![level] = Append(@, id)]
    ELSE (level :> <<id>>) @@ nodesByLevel

\* visitNeighbors that enqueues a neighbour two levels down: level + 2.
RECURSIVE visitNeighbors_SkipLevel(_, _, _)
visitNeighbors_SkipLevel(neighbors, level, acc) ==
    IF neighbors = <<>> THEN acc
    ELSE visitNeighbors_SkipLevel(Tail(neighbors), level,
             IF Head(neighbors) \in acc.visited THEN acc
             ELSE [queue |-> Append(acc.queue, [id |-> Head(neighbors), level |-> level + 2]),
                   visited |-> acc.visited \cup {Head(neighbors)}])

\* visitNeighbors that enqueues a neighbour on the level of the node it was
\* found from: level for level + 1.
RECURSIVE visitNeighbors_SameLevel(_, _, _)
visitNeighbors_SameLevel(neighbors, level, acc) ==
    IF neighbors = <<>> THEN acc
    ELSE visitNeighbors_SameLevel(Tail(neighbors), level,
             IF Head(neighbors) \in acc.visited THEN acc
             ELSE [queue |-> Append(acc.queue, [id |-> Head(neighbors), level |-> level]),
                   visited |-> acc.visited \cup {Head(neighbors)}])

\* graph[id].forEach: enqueue every neighbour not yet visited.
\* acc = [queue, visited].
RECURSIVE visitNeighbors(_, _, _)
visitNeighbors(neighbors, level, acc) ==
    IF neighbors = <<>> THEN acc
    ELSE visitNeighbors(Tail(neighbors), level,
             IF Head(neighbors) \in acc.visited THEN acc
             ELSE [queue |-> Append(acc.queue, [id |-> Head(neighbors), level |-> level + 1]),
                   visited |-> acc.visited \cup {Head(neighbors)}])

\* The while loop of the traversal. st = [queue, visited, levels,
\* nodesByLevel, dequeued]; dequeued records the order of queue.shift().
RECURSIVE bfsLoop(_, _)
bfsLoop(graph, st) ==
    IF st.queue = <<>> THEN st
    ELSE LET item == Head(st.queue)
             after == visitNeighbors(graph[item.id], item.level,
                          [queue |-> Tail(st.queue), visited |-> st.visited])
         IN  bfsLoop(graph,
                 [queue |-> after.queue,
                  visited |-> after.visited,
                  levels |-> (item.id :> item.level) @@ st.levels,
                  nodesByLevel |-> pushAtLevel(st.nodesByLevel, item.level, item.id),
                  dequeued |-> Append(st.dequeued, item.id)])

\* placeUnvisited that takes the largest level of the traversal, not the
\* largest level so far.
RECURSIVE placeUnvisited_OneLevel(_, _, _)
placeUnvisited_OneLevel(ids, visited, st) ==
    IF ids = <<>> THEN st
    ELSE LET id == Head(ids)
             newLevel == Max({st.levels[v] : v \in visited} \cup {-1}) + 1
         IN  placeUnvisited_OneLevel(Tail(ids), visited,
                 IF id \in visited THEN st
                 ELSE [st EXCEPT !.levels = (id :> newLevel) @@ st.levels,
                                 !.nodesByLevel = pushAtLevel(st.nodesByLevel, newLevel, id)])

\* "Handle disconnected components or unvisited nodes": each unvisited key,
\* in Object.keys order, goes one level below the largest level so far.
RECURSIVE placeUnvisited(_, _, _)
placeUnvisited(ids, visited, st) ==
    IF ids = <<>> THEN st
    ELSE LET id == Head(ids)
             newLevel == Max(DOMAIN st.nodesByLevel \cup {-1}) + 1
         IN  placeUnvisited(Tail(ids), visited,
                 IF id \in visited THEN st
                 ELSE [st EXCEPT !.levels = (id :> newLevel) @@ st.levels,
                                 !.nodesByLevel = pushAtLevel(st.nodesByLevel, newLevel, id)])

\* flowLevels without visited.add(root): the roots are enqueued unmarked.
flowLevels_RootsNotMarked(ids, g) ==
    LET roots == flowRoots(ids, g.reverseGraph)
        start == [queue |-> [i \in DOMAIN roots |-> [id |-> roots[i], level |-> 0]],
                  visited |-> {},
                  levels |-> <<>>,
                  nodesByLevel |-> <<>>,
                  dequeued |-> <<>>]
        walked == bfsLoop(g.graph, start)
    IN  placeUnvisited(ids, walked.visited, walked)

\* levels and nodesByLevel of a flowchart whose graph was populated.
flowLevels(ids, g) ==
    LET roots == flowRoots(ids, g.reverseGraph)
        start == [queue |-> [i \in DOMAIN roots |-> [id |-> roots[i], level |-> 0]],
                  visited |-> Range(roots),
                  levels |-> <<>>,
                  nodesByLevel |-> <<>>,
                  dequeued |-> <<>>]
        walked == bfsLoop(g.graph, start)
    IN  placeUnvisited(ids, walked.visited, walked)

\* flowRow with the row started at startX - rowWidth: the halving lost.
RECURSIVE flowRow_NotCentred(_, _, _, _, _)
flowRow_NotCentred(nodes, index, level, steps, acc) ==
    IF index >= Len(nodes) THEN acc
    ELSE LET nodeId == nodes[index + 1]
             step == stepMap(steps)[nodeId]
             rowWidth == (Len(nodes) - 1) * nodeSpacing
             startRowX == flowStartX - rowWidth
             x == startRowX + (index * nodeSpacing)
             y == flowStartY + (level * levelHeight)
             shape == createShape(acc.cellId, step.label,
                                  IF step.type = "" THEN "process" ELSE step.type,
                                  x, y, OrNum(step.width, 120), OrNum(step.height, 60))
         IN  flowRow_NotCentred(nodes, index + 1, level, steps,
                 [elements |-> Append(acc.elements, shape.cell),
                  stepIds |-> (nodeId :> shape.cell.id) @@ acc.stepIds,
                  cellId |-> shape.cellId])

\* The shapes of one level. acc = [elements, stepIds, cellId].
RECURSIVE flowRow(_, _, _, _, _)
flowRow(nodes, index, level, steps, acc) ==
    IF index >= Len(nodes) THEN acc
    ELSE LET nodeId == nodes[index + 1]
             step == stepMap(steps)[nodeId]
             rowWidth == (Len(nodes) - 1) * nodeSpacing
             startRowX == flowStartX - (rowWidth \div 2)
             x == startRowX + (index * nodeSpacing)
             y == flowStartY + (level * levelHeight)
             shape == createShape(acc.cellId, step.label,
                                  IF step.type = "" THEN "process" ELSE step.type,
                                  x, y, OrNum(step.width, 120), OrNum(step.height, 60))
         IN  flowRow(nodes, index + 1, level, steps,
                 [elements |-> Append(acc.elements, shape.cell),
                  stepIds |-> (nodeId :> shape.cell.id) @@ acc.stepIds,
                  cellId |-> shape.cellId])

\* "Create Shapes": the levels in ascending order (Object.keys of integer keys).
RECURSIVE flowShapes(_, _, _, _)
flowShapes(todo, nodesByLevel, steps, acc) ==
    IF todo = {} THEN acc
    ELSE LET level == CHOOSE l \in todo : \A m \in todo : l <= m
         IN  flowShapes(todo \ {level}, nodesByLevel, steps,
                 flowRow(nodesByLevel[level], 0, level, steps, acc))

\* "Sequential connections": ids[i] -> ids[i + 1], labelled with the
\* connectorLabel of step ids[i]. acc = [elements, cellId].
RECURSIVE sequentialConnectors(_, _, _, _, _)
sequentialConnectors(ids, i, stepIds, steps, acc) ==
    IF i > Len(ids) - 1 THEN acc
    ELSE LET made == createConnector(acc.cellId, stepIds[ids[i]], stepIds[ids[i + 1]],
                                     stepMap(steps)[ids[i]].connectorLabel, connectorStyle)
         IN  sequentialConnectors(ids, i + 1, stepIds, steps,
                 [elements |-> Append(acc.elements, made.cell), cellId |-> made.cellId])

createFlowchart(counter, steps, connections) ==
    IF ~steps.defined THEN Thrown(counter)
    ELSE LET ids == objectKeys(steps.items)
             conns == OrEmpty(connections)
             g == flowGraph(steps.items, conns)
         IN  IF g.threw THEN Thrown(counter)
             ELSE LET lv == flowLevels(ids, g)
                      shaped == flowShapes(DOMAIN lv.nodesByLevel, lv.nodesByLevel, steps.items,
                                    [elements |-> <<>>, stepIds |-> <<>>, cellId |-> counter])
                      start == [elements |-> shaped.elements, cellId |-> shaped.cellId]
                      done == IF declared(conns)
                              THEN connectAll(conns.items, shaped.stepIds, connectorStyle, start)
                              ELSE sequentialConnectors(ids, 1, shaped.stepIds, steps.items, start)
                  IN  Built(done.elements, done.cellId)

----------------------------------------------------------------------------
(* DrawioMCPServer: files *)

\* this.outputDir, as the directories of an absolute path.
outputDir == <<"srv", "out">>

\* A file name is a sequence of atoms: plain text, the separator "/", the
\* parent segment ".." and the extension ".drawio".
\* filename.endsWith('.drawio')
endsWithDrawio(filename) == Len(filename) > 0 /\ filename[Len(filename)] = ".drawio"

\* The segments of a name between separators, empty ones dropped.
RECURSIVE splitPath(_, _, _)
splitPath(atoms, current, acc) ==
    IF atoms = <<>> THEN (IF current = <<>> THEN acc ELSE Append(acc, current))
    ELSE IF Head(atoms) = "/"
         THEN splitPath(Tail(atoms), <<>>, IF current = <<>> THEN acc ELSE Append(acc, current))
         ELSE splitPath(Tail(atoms), Append(current, Head(atoms)), acc)

\* path.normalize on segments: ".." removes the segment before it (and is
\* dropped at the root of an absolute path).
RECURSIVE normalizePath(_, _)
normalizePath(segments, acc) ==
    IF segments = <<>> THEN acc
    ELSE IF Head(segments) = <<"..">>
         THEN normalizePath(Tail(segments),
                  IF acc = <<>> THEN acc ELSE SubSeq(acc, 1, Len(acc) - 1))
         ELSE normalizePath(Tail(segments), Append(acc, Head(segments)))

\* path.join(this.outputDir, filename)
pathJoin(dir, filename) ==
    normalizePath([i \in DOMAIN dir |-> <<dir[i]>>] \o splitPath(filename, <<>>, <<>>), <<>>)

\* The content '' of the placeholder write: text with no cell in it.
EmptyText == [modified |-> NoNum, cells |-> <<>>]

\* saveToFile(filename, content) on the file system fs; writable says whether
\* fs.writeFileSync succeeds. An undefined filename (filename.defined false)
\* throws inside the try; every failure is rethrown.
saveToFile(fs, filename, content, writable) ==
    IF ~filename.defined \/ ~writable
    THEN [threw |-> TRUE, files |-> fs, fullPath |-> <<>>]
    ELSE LET named == IF endsWithDrawio(filename.atoms) THEN filename.atoms
                      ELSE Append(filename.atoms, ".drawio")
             path == pathJoin(outputDir, named)
         IN  [threw |-> FALSE, files |-> (path :> content) @@ fs, fullPath |-> path]

----------------------------------------------------------------------------
(* DrawioMCPServer: the CallToolRequestSchema handler *)

\* The switch on the diagram type. DrawioGenerator has no createCustomDiagram:
\* calling it is a TypeError; an unknown type throws "Unknown diagram type".
dispatch(counter, type, args) ==
    IF ~args.hasData THEN Thrown(counter)
    ELSE CASE type = "flowchart" ->
                createFlowchart(counter, Field(args.data, "steps"), Field(args.data, "connections"))
           [] type = "sequence" ->
                createSequenceDiagram(counter, Field(args.data, "participants"),
                                      Field(args.data, "interactions"))
           [] type = "network" ->
                createNetworkDiagram(counter, Field(args.data, "nodes"),
                                     OrEmpty(Field(args.data, "connections")))
           [] type = "erd" ->
                createERD(counter, Field(args.data, "entities"), Field(args.data, "relationships"))
           [] type = "custom" -> Thrown(counter)
           [] OTHER -> Thrown(counter)

NoResponse == [kind |-> "none", isError |-> FALSE]
Success == [kind |-> "result", isError |-> FALSE]
ErrorResult == [kind |-> "result", isError |-> TRUE]
Escaped == [kind |-> "threw", isError |-> FALSE]

\* A finished request, as the log keeps it: what was asked, what the handler
\* answered, and the document it had built (EmptyText when it built none).
Entry(req, resp, doc) == [request |-> req, response |-> resp, document |-> doc]

----------------------------------------------------------------------------
(* Inputs *)

Step(id, label, type, width, height, connectorLabel) ==
    [id |-> id, label |-> label, type |-> type, width |-> width, height |-> height,
     connectorLabel |-> connectorLabel]

Conn(from, to, label) == [from |-> from, to |-> to, label |-> label]

Node(id, label, type, x, y, width, height) ==
    [id |-> id, label |-> label, type |-> type, x |-> x, y |-> y,
     width |-> width, height |-> height]

Entity(id, name, attributes) == [id |-> id, name |-> name, attributes |-> attributes]

Interaction(from, to, message, dashed) ==
    [from |-> from, to |-> to, message |-> message, dashed |-> dashed]

\* The ids callers declare, and the ids connections may name: the declared
\* ones, one that nothing declares, and one that every object inherits.
\* Declared ids are ordinary names, none of them a member of Object.prototype.
DeclaredIds == {"a", "b"}
ReferredIds == DeclaredIds \cup {"x", "constructor"}

\* The data objects the server is sent, per diagram type.
ServerData(type) ==
    CASE type = "flowchart" ->
            {[steps |-> <<Step("a", <<"A">>, "terminator", NoNum, NoNum, <<>>),
                          Step("b", <<"B">>, "process", NoNum, NoNum, <<>>)>>,
              connections |-> <<Conn("a", "b", <<"g", "o">>)>>],
             [connections |-> <<>>]}
      [] type = "sequence" ->
            {[participants |-> <<"a", "b">>,
              interactions |-> <<Interaction("a", "b", <<"h", "i">>, FALSE)>>]}
      [] type = "network" ->
            {[nodes |-> <<Node("a", <<"A">>, "cloud", 40, 80, NoNum, NoNum)>>]}
      [] type = "erd" ->
            {[entities |-> <<Entity("a", <<"A">>, <<<<"k">>>>)>>, relationships |-> <<>>],
             [entities |-> <<Entity("a", <<"A">>, <<>>)>>]}
      [] type = "custom" ->
            {[shapes |-> <<Node("a", <<"A">>, "ellipse", 40, 80, NoNum, NoNum),
                           Node("b", <<"B">>, "note", 10, 20, NoNum, NoNum)>>,
              connectors |-> <<Conn("a", "b", <<>>), Conn("a", "x", <<>>)>>]}
      [] OTHER -> {[steps |-> <<>>]}

DiagramTypes == {"flowchart", "sequence", "network", "erd", "custom", "bogus"}

Filename(atoms) == [defined |-> TRUE, atoms |-> atoms]
NoFilename == [defined |-> FALSE, atoms |-> <<>>]

Filenames ==
    {Filename(<<"a">>), Filename(<<"a", ".drawio">>), Filename(<<"..", "/", "a">>), NoFilename}

Arguments(filename, type, data) ==
    [filename |-> filename, type |-> type, hasData |-> TRUE, data |-> data]

\* request.params of a tools/call request.
Request(name, hasArguments, arguments) ==
    [name |-> name, hasArguments |-> hasArguments, arguments |-> arguments]

NoArguments == [filename |-> NoFilename, type |-> "", hasData |-> FALSE, data |-> <<>>]

\* The create_diagram requests: one without arguments, one without data, and
\* every file name with every type and the data sent for it.
Requests ==
    {Request("create_diagram", FALSE, NoArguments),
     Request("create_diagram", TRUE,
             [filename |-> Filename(<<"a">>), type |-> "network", hasData |-> FALSE,
              data |-> <<>>])}
    \cup UNION {{Request("create_diagram", TRUE, Arguments(f, t, d)) : d \in ServerData(t)} :
                 f \in Filenames, t \in DiagramTypes}

----------------------------------------------------------------------------
(* The server process *)

\* new DrawioMCPServer(): a fresh generator, nothing written, no request yet.
Init ==
    /\ cellId = 2
    /\ files = <<>>
    /\ now = 0
    /\ pc = "idle"
    /\ request = Request("", FALSE, NoArguments)
    /\ fullPath = <<>>
    /\ xmlContent = EmptyText
    /\ response = NoResponse
    /\ served = <<>>
    /\ filesAtCall = <<>>
    /\ elements = <<>>

Finish(req, resp, doc) ==
    /\ response' = resp
    /\ served' = Append(served, Entry(req, resp, doc))
    /\ pc' = "idle"

\* A request for a tool other than create_diagram: the handler throws before
\* its try block.
CallOtherTool ==
    /\ pc = "idle" /\ Len(served) < MaxRequests
    /\ request' = Request("create_flowchart", TRUE, NoArguments)
    /\ filesAtCall' = files
    /\ Finish(request', Escaped, EmptyText)
    /\ UNCHANGED <<cellId, files, now, fullPath, xmlContent, elements>>

\* The handler up to its try block: destructure the arguments, then
\* saveToFile(filename, '') "to get the path". Either may throw, and the
\* exception leaves the handler.
Call ==
    /\ pc = "idle" /\ Len(served) < MaxRequests
    /\ \E req \in Requests, writable \in BOOLEAN :
         LET saved == saveToFile(files, req.arguments.filename, EmptyText, writable)
         IN  /\ request' = req
             /\ filesAtCall' = files
             /\ IF ~req.hasArguments \/ saved.threw
                THEN /\ Finish(req, Escaped, EmptyText)
                     /\ UNCHANGED <<files, fullPath>>
                ELSE /\ files' = saved.files
                     /\ fullPath' = saved.fullPath
                     /\ pc' = "build"
                     /\ response' = NoResponse
                     /\ UNCHANGED served
    /\ UNCHANGED <<cellId, now, xmlContent, elements>>

\* Inside the try: the switch and the builder it calls. A throw is caught
\* and answered with an error result.
Build ==
    /\ pc = "build"
    /\ LET built == dispatch(cellId, request.arguments.type, request.arguments)
       IN  /\ cellId' = built.cellId
           /\ elements' = built.elements
           /\ IF built.threw
              THEN /\ Finish(request, ErrorResult, EmptyText)
                   /\ UNCHANGED <<xmlContent, request>>
              ELSE /\ xmlContent' = generateDiagram(built.elements, now)
                   /\ pc' = "save"
                   /\ UNCHANGED <<response, served, request>>
    /\ UNCHANGED <<files, now, fullPath, filesAtCall>>

\* this.saveToFile(filename, xmlContent), then the success result; a failed
\* write is caught and answered with an error result.
Save ==
    /\ pc = "save"
    /\ \E writable \in BOOLEAN :
         LET saved == saveToFile(files, request.arguments.filename, xmlContent, writable)
         IN  /\ files' = saved.files
             /\ Finish(request, IF saved.threw THEN ErrorResult ELSE Success, xmlContent)
    /\ UNCHANGED <<cellId, now, request, fullPath, xmlContent, filesAtCall, elements>>

\* Time passes.
Tick ==
    /\ now < MaxClock
    /\ now' = now + 1
    /\ UNCHANGED <<cellId, files, pc, request, fullPath, xmlContent, response, served,
                   filesAtCall, elements>>

Next == CallOtherTool \/ Call \/ Build \/ Save \/ Tick

Spec == Init /\ [][Next]_vars

----------------------------------------------------------------------------
(* Direct builder calls *)

\* Here a generator that has already handed out some ids is asked for one
\* diagram: request holds the builder's name and arguments, pc is "call"
\* before and "returned" after, xmlContent is the document returned and
\* response tells whether the builder returned or threw.

\* Steps: declared ids, an omitted id and an id that is an array index; step b
\* carries a connectorLabel.
StepChoices ==
    {Step(id, Chars(id), "", NoNum, NoNum, IF id = "b" THEN <<"y">> ELSE <<>>) :
        id \in DeclaredIds \cup {"", "1"}}

ConnChoices == {Conn(from, to, <<>>) : from \in ReferredIds, to \in ReferredIds}

\* Nodes: a at (40, 80); b at x = 0 with y omitted.
NodeChoices ==
    {Node(id, Chars(id), "", IF id = "a" THEN 40 ELSE 0, IF id = "a" THEN 80 ELSE NoNum,
          NoNum, NoNum) : id \in DeclaredIds}

EntityChoices ==
    {Entity(id, Chars(id), IF id = "a" THEN <<<<"k">>>> ELSE <<>>) : id \in DeclaredIds}

InteractionChoices ==
    {Interaction(from, to, <<"m">>, dashed) :
        from \in ReferredIds, to \in ReferredIds, dashed \in BOOLEAN}

BuilderCall(type, data) == [type |-> type, data |-> data]

BuilderCalls ==
    {BuilderCall("flowchart", [steps |-> s]) : s \in SeqsUpTo(StepChoices, MaxSteps)}
    \cup {BuilderCall("flowchart", [steps |-> s, connections |-> c]) :
            s \in SeqsUpTo(StepChoices, MaxSteps), c \in SeqsUpTo(ConnChoices, MaxConns)}
    \cup {BuilderCall("network", [nodes |-> n, connections |-> c]) :
            n \in SeqsUpTo(NodeChoices, MaxSteps), c \in SeqsUpTo(ConnChoices, MaxConns)}
    \cup {BuilderCall("erd", [entities |-> e, relationships |-> c]) :
            e \in SeqsUpTo(EntityChoices, MaxSteps), c \in SeqsUpTo(ConnChoices, MaxConns)}
    \cup {BuilderCall("sequence", [participants |-> p, interactions |-> i]) :
            p \in SeqsUpTo(DeclaredIds, MaxSteps), i \in SeqsUpTo(InteractionChoices, MaxConns)}

InitBuild ==
    /\ cellId \in 2..(2 + MaxPrior)
    /\ request \in BuilderCalls
    /\ pc = "call"
    /\ xmlContent = EmptyText
    /\ response = NoResponse
    /\ files = <<>>
    /\ now = 0
    /\ fullPath = <<>>
    /\ served = <<>>
    /\ filesAtCall = <<>>
    /\ elements = <<>>

Return(built) ==
    /\ cellId' = built.cellId
    /\ elements' = built.elements
    /\ xmlContent' = IF built.threw THEN EmptyText ELSE generateDiagram(built.elements, now)
    /\ response' = IF built.threw THEN Escaped ELSE Success
    /\ pc' = "returned"
    /\ UNCHANGED <<request, files, now, fullPath, served, filesAtCall>>

BuildFlowchart ==
    /\ pc = "call" /\ request.type = "flowchart"
    /\ Return(createFlowchart(cellId, Field(request.data, "steps"),
                              Field(request.data, "connections")))

BuildSequence ==
    /\ pc = "call" /\ request.type = "sequence"
    /\ Return(createSequenceDiagram(cellId, Field(request.data, "participants"),
                                    Field(request.data, "interactions")))

BuildNetwork ==
    /\ pc = "call" /\ request.type = "network"
    /\ Return(createNetworkDiagram(cellId, Field(request.data, "nodes"),
                                   Field(request.data, "connections")))

BuildERD ==
    /\ pc = "call" /\ request.type = "erd"
    /\ Return(createERD(cellId, Field(request.data, "entities"),
                        Field(request.data, "relationships")))

NextBuild == BuildFlowchart \/ BuildSequence \/ BuildNetwork \/ BuildERD

SpecBuild == InitBuild /\ [][NextBuild]_vars

----------------------------------------------------------------------------
(* Reading documents *)

\* The elements of a document: its cells after the two structural ones.
Elements(doc) == SubSeq(doc.cells, 3, Len(doc.cells))

Vertices(elems) == SelectSeq(elems, LAMBDA e : e.vertex)

Edges(elems) == SelectSeq(elems, LAMBDA e : e.edge)

\* A complete document: the envelope generateDiagram puts around an element list.
IsDocument(content) ==
    /\ Len(content.cells) >= 2
    /\ content.cells[1] = RootCell(0, Null)
    /\ content.cells[2] = RootCell(1, 0)

\* The connections of a list whose two endpoints are declared ids.
Resolving(conns, ids) == SelectSeq(conns, LAMBDA c : c.from \in ids /\ c.to \in ids)

\* A path below the output directory.
UnderOutputDir(path) ==
    /\ Len(path) > Len(outputDir)
    /\ \A i \in DOMAIN outputDir : path[i] = <<outputDir[i]>>

----------------------------------------------------------------------------
(* The request handler: C1 - C6, C10 *)

\* C1: every create_diagram request is answered with a result object
\* (success, or error with the error flag set); no exception leaves the
\* request handler.
C1_HandlerAlwaysReturnsResult ==
    \A i \in DOMAIN served :
        served[i].request.name = "create_diagram" => served[i].response.kind = "result"

\* C2: a request answered with an error result has written nothing: the file
\* system is as it was when the request arrived.
C2_ErrorWritesNothing ==
    (pc = "idle" /\ response.kind = "result" /\ response.isError) => files = filesAtCall

\* C3: the target file is written only after the builder has returned, and
\* no file ever holds anything but a complete document.
C3_OnlyCompleteDocumentsOnDisk ==
    /\ pc = "build" => files = filesAtCall
    /\ \A path \in DOMAIN files : IsDocument(files[path])

\* C4: every file written lies under the output directory and its name ends
\* with the extension .drawio, appended only when the name lacked it.
C4_WrittenUnderOutputDir ==
    \A path \in DOMAIN files :
        /\ UnderOutputDir(path)
        /\ endsWithDrawio(path[Len(path)])
        /\ Cardinality({k \in DOMAIN path[Len(path)] : path[Len(path)][k] = ".drawio"}) = 1

\* C5: the elements of every document built by the server carry the
\* identifiers 2, 3, ... : nothing carries over from an earlier request.
C5_IdsStartAtTwo ==
    \A i \in DOMAIN served :
        LET elems == Elements(served[i].document)
        IN  {elems[k].id : k \in DOMAIN elems} = 2..(Len(elems) + 1)

\* C6: two requests of the same type with the same data, handled by one
\* server, build documents with the same cells (ids and coordinates); only
\* the modification time may differ.
C6_SameRequestSameDocument ==
    \A i, j \in DOMAIN served :
        (/\ served[i].response = Success
         /\ served[j].response = Success
         /\ served[i].request.arguments.type = served[j].request.arguments.type
         /\ served[i].request.arguments.data = served[j].request.arguments.data)
        => served[i].document.cells = served[j].document.cells

\* C10: a custom request with a shapes list, once answered, has reached a
\* builder: the answer is the success result and the document has one
\* vertex per shape, at the shape's x and y, and one edge per connector whose
\* two endpoints are shapes.
C10_CustomDiagramIsBuilt ==
    \A i \in DOMAIN served :
        LET args == served[i].request.arguments
            elems == Elements(served[i].document)
        IN  (/\ served[i].response.kind = "result"
             /\ args.type = "custom"
             /\ args.hasData
             /\ "shapes" \in DOMAIN args.data)
            => /\ served[i].response = Success
               /\ IsDocument(served[i].document)
               /\ Len(Vertices(elems)) = Len(args.data.shapes)
               /\ \A k \in DOMAIN args.data.shapes :
                      /\ Vertices(elems)[k].x = args.data.shapes[k].x
                      /\ Vertices(elems)[k].y = args.data.shapes[k].y
               /\ Len(Edges(elems)) =
                      Len(Resolving(args.data.connectors,
                                    {args.data.shapes[k].id : k \in DOMAIN args.data.shapes}))

----------------------------------------------------------------------------
(* The builders: C7 - C9 *)

\* C7: in the element list a builder returns, no two elements share an
\* identifier and none carries the reserved identifier 0 or 1.
C7_IdsUniqueAndNotReserved ==
    pc = "returned" =>
        LET elems == Elements(xmlContent)
        IN  /\ \A i, j \in DOMAIN elems : elems[i].id = elems[j].id => i = j
            /\ \A i \in DOMAIN elems : elems[i].id \notin {0, 1}

\* C7 witness: a sequence diagram with a drawn interaction was built (anchor
\* points with pre-allocated ids, shapes and a connector) by a generator
\* that had handed out ids before.
C7_Witness ==
    /\ pc = "returned"
    /\ request.type = "sequence"
    /\ Len(Edges(Elements(xmlContent))) >= 1
    /\ Len(Vertices(Elements(xmlContent))) >= 5
    /\ Elements(xmlContent)[1].id > 2

\* C8: the source and the target of every edge of a built document are
\* identifiers of vertices that stand earlier in the element list.
C8_EdgesJoinEarlierVertices ==
    pc = "returned" =>
        LET elems == Elements(xmlContent)
        IN  \A i \in DOMAIN elems :
                elems[i].edge =>
                    /\ \E j \in 1..(i - 1) : elems[j].vertex /\ elems[j].id = elems[i].source
                    /\ \E j \in 1..(i - 1) : elems[j].vertex /\ elems[j].id = elems[i].target

RECURSIVE AttributeCount(_)
AttributeCount(entities) ==
    IF entities = <<>> THEN 0
    ELSE Len(Head(entities).attributes) + AttributeCount(Tail(entities))

\* The vertices a build is due whatever its connections are: one per
\* distinct step id, one per node, one per entity and attribute.
DueVertices(call) ==
    CASE call.type = "flowchart" -> Len(objectKeys(call.data.steps))
      [] call.type = "network" -> Len(call.data.nodes)
      [] call.type = "erd" ->
            Len(call.data.entities) + AttributeCount(call.data.entities)
      [] OTHER -> 0

\* The declared connections of a build, and the ids they may refer to.
DeclaredConns(call) ==
    CASE call.type = "flowchart" -> call.data.connections
      [] call.type = "network" -> call.data.connections
      [] call.type = "erd" -> call.data.relationships
      [] OTHER -> <<>>

DeclaredKeys(call) ==
    CASE call.type = "flowchart" -> Range(objectKeys(call.data.steps))
      [] call.type = "network" -> {call.data.nodes[k].id : k \in DOMAIN call.data.nodes}
      [] call.type = "erd" -> {call.data.entities[k].id : k \in DOMAIN call.data.entities}
      [] OTHER -> {}

\* A flowchart, network or ERD build with a non-empty connections list.
ConnectedBuild ==
    /\ pc = "returned"
    /\ request.type \in {"flowchart", "network", "erd"}
    /\ DOMAIN request.data # {"steps"}
    /\ Len(DeclaredConns(request)) > 0

\* C9: a connection naming an undeclared step, node or entity raises no
\* error and adds no element: the vertices are those of the declarations
\* alone, and there is one edge per connection whose endpoints both resolve.
C9_UnresolvedConnectionsDropped ==
    ConnectedBuild =>
        /\ response = Success
        /\ Len(Vertices(Elements(xmlContent))) = DueVertices(request)
        /\ Len(Edges(Elements(xmlContent))) =
               Len(Resolving(DeclaredConns(request), DeclaredKeys(request)))

----------------------------------------------------------------------------
(* The builders: C11 - C13 *)

\* C11: every vertex of a network diagram lies at the x and y its node
\* supplied, 0 included; 100 stands in only for a coordinate that was omitted.
C11_NodesAtSuppliedPosition ==
    (pc = "returned" /\ request.type = "network" /\ response = Success) =>
        LET nodes == request.data.nodes
            placed == Vertices(Elements(xmlContent))
        IN  /\ Len(placed) = Len(nodes)
            /\ \A k \in DOMAIN nodes :
                   /\ placed[k].x = (IF nodes[k].x = NoNum THEN 100 ELSE nodes[k].x)
                   /\ placed[k].y = (IF nodes[k].y = NoNum THEN 100 ELSE nodes[k].y)

\* A flowchart build without connections whose steps have pairwise distinct ids.
SequentialBuild ==
    /\ pc = "returned"
    /\ request.type = "flowchart"
    /\ ~declared(OrEmpty(Field(request.data, "connections")))
    /\ \A i, j \in DOMAIN request.data.steps :
           effectiveId(request.data.steps, i) = effectiveId(request.data.steps, j) => i = j

\* C12: n steps with distinct ids and no connections are chained in the
\* order they were declared: the vertex of step i lies on level i - 1, and
\* there are n - 1 edges, the i-th from the vertex of step i to that of
\* step i + 1.
C12_SequentialChainInDeclarationOrder ==
    SequentialBuild =>
        LET steps == request.data.steps
            placed == Vertices(Elements(xmlContent))
            drawn == Edges(Elements(xmlContent))
        IN  /\ response = Success
            /\ Len(placed) = Len(steps)
            /\ \A i \in DOMAIN steps :
                   /\ placed[i].value = escapeXml(steps[i].label)
                   /\ placed[i].y = flowStartY + (i - 1) * levelHeight
            /\ Len(drawn) = Max({Len(steps) - 1, 0})
            /\ \A i \in DOMAIN drawn :
                   drawn[i].source = placed[i].id /\ drawn[i].target = placed[i + 1].id

\* C13: in sequential flow the connectorLabel of a step labels the
\* connector that leads to that step: the edge whose target is the step's
\* vertex. Stated for the builds whose keys come out in declaration order.
C13_ConnectorLabelLeadsToStep ==
    (/\ SequentialBuild
     /\ response = Success
     /\ objectKeys(request.data.steps) =
            [i \in DOMAIN request.data.steps |-> effectiveId(request.data.steps, i)]) =>
        LET steps == request.data.steps
            placed == Vertices(Elements(xmlContent))
            drawn == Edges(Elements(xmlContent))
        IN  \A i \in DOMAIN drawn :
                \A k \in DOMAIN steps :
                    drawn[i].target = placed[k].id =>
                        drawn[i].value = escapeXml(steps[k].connectorLabel)

----------------------------------------------------------------------------
(* generateDiagram: C14 *)

\* C14: the document generateDiagram returns for an element list, the empty
\* list included, holds the two structural cells (ids 0 and 1) and then one
\* cell per element of the list, in list order.
C14_DocumentIsRootsThenElements ==
    (pc = "returned" /\ response = Success) =>
        /\ Len(xmlContent.cells) = 2 + Len(elements)
        /\ xmlContent.cells[1].id = 0 /\ xmlContent.cells[2].id = 1
        /\ xmlContent.cells[2].parent = 0
        /\ \A k \in 1..2 : ~xmlContent.cells[k].vertex /\ ~xmlContent.cells[k].edge
        /\ \A k \in DOMAIN elements : xmlContent.cells[2 + k] = elements[k]

\* C14 witness: a builder returned with an empty element list.
C14_Witness ==
    pc = "returned" /\ response = Success /\ elements = <<>>

----------------------------------------------------------------------------
(* A single labelled cell: C15 *)

\* Here createShape is called once with a label and the cell is wrapped by
\* generateDiagram: request holds the label, xmlContent the document.

LabelAlphabet == {"&", "<", ">", "\"", "'", "l", "t", ";"}

LabelCall(label) == [type |-> "cell", data |-> [label |-> label]]

InitEscape ==
    /\ cellId = 2
    /\ request \in {LabelCall(l) : l \in SeqsUpTo(LabelAlphabet, MaxLabel)}
    /\ pc = "call"
    /\ xmlContent = EmptyText
    /\ response = NoResponse
    /\ files = <<>>
    /\ now = 0
    /\ fullPath = <<>>
    /\ served = <<>>
    /\ filesAtCall = <<>>
    /\ elements = <<>>

CreateLabelledShape ==
    /\ pc = "call" /\ request.type = "cell"
    /\ LET shape == createShape(cellId, request.data.label, "rectangle", 0, 0, NoNum, NoNum)
       IN  Return(Built(<<shape.cell>>, shape.cellId))

NextEscape == CreateLabelledShape

SpecEscape == InitEscape /\ [][NextEscape]_vars

\* What a reader of the document does with an attribute value: each entity
\* reference, left to right, becomes the character it names.
XmlEntities == {<<amp, "&">>, <<lt, "<">>, <<gt, ">">>, <<quot, "\"">>, <<apos, "'">>}

StartsWith(text, prefix) ==
    Len(text) >= Len(prefix) /\ SubSeq(text, 1, Len(prefix)) = prefix

RECURSIVE unescapeXml(_)
unescapeXml(text) ==
    IF text = <<>> THEN <<>>
    ELSE IF \E e \in XmlEntities : StartsWith(text, e[1])
         THEN LET e == CHOOSE e \in XmlEntities : StartsWith(text, e[1])
              IN  <<e[2]>> \o unescapeXml(SubSeq(text, Len(e[1]) + 1, Len(text)))
         ELSE <<Head(text)>> \o unescapeXml(Tail(text))

\* C15: the value written for a label holds none of the raw characters
\* < > " ' and no & that does not begin an entity reference, and
\* unescaping it gives back the label.
C15_EscapedLabelRoundTrips ==
    (pc = "returned" /\ request.type = "cell") =>
        LET value == xmlContent.cells[3].value
        IN  /\ \A i \in DOMAIN value : value[i] \notin {"<", ">", "\"", "'"}
            /\ \A i \in DOMAIN value :
                   value[i] = "&" =>
                       \E e \in XmlEntities : StartsWith(SubSeq(value, i, Len(value)), e[1])
            /\ unescapeXml(value) = request.data.label

\* C15 witness: a label that spells an entity reference (&lt;) was escaped.
C15_Witness ==
    /\ pc = "returned" /\ request.type = "cell"
    /\ request.data.label = lt
    /\ xmlContent.cells[3].value = <<"&", "a", "m", "p", ";", "l", "t", ";">>

----------------------------------------------------------------------------
(* Flowchart layout: C16 - C20 *)

\* Here createFlowchart is called on a fresh generator with steps of
\* pairwise distinct ids and with connections among the ids, cycles and
\* self-loops included.

MaxFlowConns == 3    \* most connections of a flowchart laid out here

\* The step ids: two names and one array index.
FlowIds == {"a", "b", "1"}

\* Step a is 200 wide; the others leave width and height to the default.
FlowStep(id) == Step(id, Chars(id), "", IF id = "a" THEN 200 ELSE NoNum, NoNum, <<>>)

FlowStepLists ==
    {[i \in DOMAIN ids |-> FlowStep(ids[i])] :
        ids \in {s \in SeqsUpTo(FlowIds, Cardinality(FlowIds)) :
                    \A i, j \in DOMAIN s : s[i] = s[j] => i = j}}

FlowConnChoices == {Conn(from, to, <<>>) : from \in FlowIds, to \in FlowIds}

FlowCalls ==
    {BuilderCall("flowchart", [steps |-> s, connections |-> c]) :
        s \in FlowStepLists, c \in SeqsUpTo(FlowConnChoices, MaxFlowConns)}

\* The branch that rejoins: A -> B, B -> C (Yes), B -> B2 (No), B2 -> C, C -> D.
BranchMergeCall ==
    BuilderCall("flowchart",
        [steps |-> <<Step("A", <<"A">>, "terminator", NoNum, NoNum, <<>>),
                     Step("B", <<"B">>, "decision", NoNum, NoNum, <<>>),
                     Step("B2", <<"B2">>, "process", NoNum, NoNum, <<>>),
                     Step("C", <<"C">>, "process", NoNum, NoNum, <<>>),
                     Step("D", <<"D">>, "terminator", NoNum, NoNum, <<>>)>>,
         connections |-> <<Conn("A", "B", <<>>),
                           Conn("B", "C", <<"Y", "e", "s">>),
                           Conn("B", "B2", <<"N", "o">>),
                           Conn("B2", "C", <<>>),
                           Conn("C", "D", <<>>)>>])

InitFlow ==
    /\ cellId = 2
    /\ request \in FlowCalls \cup {BranchMergeCall}
    /\ pc = "call"
    /\ xmlContent = EmptyText
    /\ response = NoResponse
    /\ files = <<>>
    /\ now = 0
    /\ fullPath = <<>>
    /\ served = <<>>
    /\ filesAtCall = <<>>
    /\ elements = <<>>

NextFlow == BuildFlowchart

SpecFlow == InitFlow /\ [][NextFlow]_vars

\* The vertices drawn for the step with the given id (its label is its id).
VerticesOf(id) == SelectSeq(Vertices(Elements(xmlContent)), LAMBDA v : v.value = <<id>>)

\* The level a vertex was drawn on, read back from its y.
LevelOf(id) == (VerticesOf(id)[1].y - flowStartY) \div levelHeight

StepIdsOf(call) == {call.data.steps[i].id : i \in DOMAIN call.data.steps}

\* The traversal of the flowchart being built: levels, rows, dequeue order.
FlowGraphOf(call) == flowGraph(call.data.steps, OrEmpty(Field(call.data, "connections")))

FlowTraversal(call) == flowLevels(objectKeys(call.data.steps), FlowGraphOf(call))

\* A flowchart build that returned.
FlowBuilt == pc = "returned" /\ request.type = "flowchart" /\ response = Success

\* C16: no two vertices of one level of a flowchart overlap horizontally,
\* whatever widths the steps specify: their intervals [x, x + width] are
\* disjoint.
C16_SiblingsDoNotOverlap ==
    FlowBuilt =>
        LET placed == Vertices(Elements(xmlContent))
        IN  \A i, j \in DOMAIN placed :
                (i # j /\ placed[i].y = placed[j].y) =>
                    \/ placed[i].x + placed[i].width < placed[j].x
                    \/ placed[j].x + placed[j].width < placed[i].x

TwoCycleCall ==
    BuilderCall("flowchart",
        [steps |-> <<FlowStep("a"), FlowStep("b")>>,
         connections |-> <<Conn("a", "b", <<>>), Conn("b", "a", <<>>)>>])

\* C17: the levelling traversal comes to an end on every connection graph
\* (cycles, self-loops, no root) with no step dequeued twice and every step
\* drawn once; the 2-cycle a -> b -> a puts a on level 0 and b on level 1.
C17_TraversalTerminates ==
    (pc = "returned" /\ request.type = "flowchart") =>
        LET order == FlowTraversal(request).dequeued
        IN  /\ response = Success
            /\ \A i, j \in DOMAIN order : order[i] = order[j] => i = j
            /\ \A id \in StepIdsOf(request) : Len(VerticesOf(id)) = 1
            /\ request = TwoCycleCall => LevelOf("a") = 0 /\ LevelOf("b") = 1

\* C17 witness: the 2-cycle was laid out, both steps dequeued.
C17_Witness ==
    /\ FlowBuilt /\ request = TwoCycleCall
    /\ FlowTraversal(request).dequeued = <<"a", "b">>
    /\ LevelOf("b") = 1

\* The steps no resolved connection leads to.
NoIncoming(call) ==
    {id \in StepIdsOf(call) :
        ~\E k \in DOMAIN call.data.connections :
            /\ call.data.connections[k].to = id
            /\ call.data.connections[k].from \in StepIdsOf(call)}

\* C18: with declared connections, the steps on level 0 are exactly the
\* steps without an incoming resolved connection; when there is none and
\* there is a step, the first declared step alone is on level 0.
C18_RootsAreStepsWithoutIncoming ==
    (FlowBuilt /\ Len(request.data.connections) > 0 /\ Len(request.data.steps) > 0) =>
        LET levelZero == {id \in StepIdsOf(request) : LevelOf(id) = 0}
        IN  IF NoIncoming(request) # {}
            THEN levelZero = NoIncoming(request)
            ELSE levelZero = {request.data.steps[1].id}

\* The nodes within k edges of the set S.
RECURSIVE Ball(_, _, _)
Ball(graph, S, k) ==
    IF k = 0 THEN S
    ELSE LET inner == Ball(graph, S, k - 1)
         IN  inner \cup UNION {Range(graph[m]) : m \in inner}

\* The length of the shortest directed path from S to a node it reaches.
Dist(graph, S, id) ==
    CHOOSE k \in 0..Cardinality(DOMAIN graph) :
        id \in Ball(graph, S, k) /\ (k > 0 => id \notin Ball(graph, S, k - 1))

\* C19: every step the traversal reaches is dequeued once and drawn once, on
\* the level that is the length of the shortest directed path to it from a
\* root; later incoming edges change nothing.
C19_LevelIsShortestPathFromRoots ==
    FlowBuilt =>
        LET graph == FlowGraphOf(request).graph
            keys == objectKeys(request.data.steps)
            roots == Range(flowRoots(keys, FlowGraphOf(request).reverseGraph))
            order == FlowTraversal(request).dequeued
        IN  /\ Range(order) = Ball(graph, roots, Len(keys))
            /\ \A i, j \in DOMAIN order : order[i] = order[j] => i = j
            /\ \A id \in Range(order) :
                   /\ Len(VerticesOf(id)) = 1
                   /\ LevelOf(id) = Dist(graph, roots, id)

\* C19 witness: a -> b, b -> 1 and a -> 1 were laid out: step 1 is found
\* from a on level 1, and the later edge from b leaves it there.
C19_Witness ==
    /\ FlowBuilt
    /\ request.data.connections = <<Conn("a", "b", <<>>), Conn("b", "1", <<>>), Conn("a", "1", <<>>)>>
    /\ StepIdsOf(request) = FlowIds
    /\ LevelOf("a") = 0 /\ LevelOf("b") = 1 /\ LevelOf("1") = 1

\* C20 as stated: in the branch that rejoins, C lies on level
\* max(level(B), level(B2)) + 1 and is drawn once.
C20_MergeLevelIsMaxPlusOne ==
    (FlowBuilt /\ request = BranchMergeCall) =>
        /\ Len(VerticesOf("C")) = 1
        /\ LevelOf("C") = Max({LevelOf("B"), LevelOf("B2")}) + 1

\* C20 amended: in the branch that rejoins, C lies on the level of its
\* first discovery, level(B) + 1 = 2, the same level as B2, and is drawn
\* once.
C20_MergeLevelIsFirstDiscovery ==
    (FlowBuilt /\ request = BranchMergeCall) =>
        /\ Len(VerticesOf("C")) = 1
        /\ LevelOf("B") = 1
        /\ LevelOf("C") = LevelOf("B") + 1
        /\ LevelOf("B2") = LevelOf("C")

\* C20 witness: the branch that rejoins was laid out with D below C.
C20_Witness ==
    /\ FlowBuilt /\ request = BranchMergeCall
    /\ LevelOf("C") = 2 /\ LevelOf("D") = 3

----------------------------------------------------------------------------
(* Flowchart layout: C21 - C23, C26, C28 *)

\* The steps the traversal dequeued, and the largest level among them.
Reached(call) == Range(FlowTraversal(call).dequeued)

MaxReachedLevel == Max({LevelOf(id) : id \in Reached(request)})

\* The ids of the steps in the order they were declared.
DeclaredOrder(call) == [i \in DOMAIN call.data.steps |-> call.data.steps[i].id]

\* C21: every step the traversal never reached is put one level below the
\* largest level assigned so far, the unreached steps being taken in the
\* order the steps were declared.
C21_UnreachedBelowInDeclarationOrder ==
    (FlowBuilt /\ Len(request.data.steps) > 0) =>
        LET unreached == SelectSeq(DeclaredOrder(request), LAMBDA id : id \notin Reached(request))
        IN  \A j \in DOMAIN unreached : LevelOf(unreached[j]) = MaxReachedLevel + j

\* The steps no declared connection touches.
Isolated(call) ==
    {id \in StepIdsOf(call) :
        \A k \in DOMAIN call.data.connections :
            call.data.connections[k].from # id /\ call.data.connections[k].to # id}

\* C22 as stated: with explicit connections, a step no connection touches
\* is never reached by the traversal and lies one level below the largest
\* level of the reached steps.
C22_IsolatedStepBelowReached ==
    (FlowBuilt /\ Len(request.data.connections) > 0) =>
        \A id \in Isolated(request) :
            /\ id \notin Reached(request)
            /\ LevelOf(id) = Max({LevelOf(r) : r \in Reached(request) \ {id}} \cup {-1}) + 1

\* C22 amended: with explicit connections, a step no connection touches has
\* no incoming connection, so it is a root: the traversal reaches it and it
\* lies on level 0.
C22_IsolatedStepIsRoot ==
    (FlowBuilt /\ Len(request.data.connections) > 0) =>
        \A id \in Isolated(request) : id \in Reached(request) /\ LevelOf(id) = 0

\* C22 witness: a -> 1 was declared and b, declared last, is touched by
\* nothing: b lies on level 0 beside a, above 1.
C22_Witness ==
    /\ FlowBuilt
    /\ DeclaredOrder(request) = <<"a", "1", "b">>
    /\ request.data.connections = <<Conn("a", "1", <<>>)>>
    /\ Isolated(request) = {"b"}
    /\ LevelOf("b") = 0 /\ LevelOf("1") = 1

\* C23: the step at 0-based position index among the count members of its
\* level lies at x = 400 - 80 * (count - 1) + 160 * index and
\* y = 50 + 120 * level; the levels are drawn in ascending order and the
\* x coordinates of a level are symmetric about x = 400.
C23_LevelRowsCentredOnAxis ==
    FlowBuilt =>
        LET rows == FlowTraversal(request).nodesByLevel
            placed == Vertices(Elements(xmlContent))
        IN  /\ \A level \in DOMAIN rows :
                   LET count == Len(rows[level])
                   IN  \A k \in 1..count :
                           /\ Len(VerticesOf(rows[level][k])) = 1
                           /\ VerticesOf(rows[level][k])[1].x = 400 - 80 * (count - 1) + 160 * (k - 1)
                           /\ VerticesOf(rows[level][k])[1].y = 50 + 120 * level
                           /\ VerticesOf(rows[level][k])[1].x
                                  + VerticesOf(rows[level][count + 1 - k])[1].x = 2 * 400
            /\ \A i, j \in DOMAIN placed : i < j => placed[i].y <= placed[j].y

\* C23 witness: three steps were laid out, one on level 0 and two on
\* level 1, at x = 320 and x = 480.
C23_Witness ==
    /\ FlowBuilt
    /\ Len(Vertices(Elements(xmlContent))) = 3
    /\ Vertices(Elements(xmlContent))[1].x = 400 /\ Vertices(Elements(xmlContent))[1].y = 50
    /\ Vertices(Elements(xmlContent))[2].x = 320 /\ Vertices(Elements(xmlContent))[2].y = 170
    /\ Vertices(Elements(xmlContent))[3].x = 480 /\ Vertices(Elements(xmlContent))[3].y = 170

\* The unreached steps in the order the code takes them (Object.keys).
UnreachedInKeyOrder(call) ==
    SelectSeq(objectKeys(call.data.steps), LAMBDA id : id \notin Reached(call))

\* C26: with m the largest level of the traversal, the j-th unreached step
\* in processing order lies on level m + j: no two unreached steps share a
\* level, and none shares a level with a reached step.
C26_UnreachedStepsOnOwnLevels ==
    (FlowBuilt /\ Len(request.data.steps) > 0) =>
        LET unreached == UnreachedInKeyOrder(request)
        IN  /\ \A j \in DOMAIN unreached : LevelOf(unreached[j]) = MaxReachedLevel + j
            /\ \A i, j \in DOMAIN unreached :
                   LevelOf(unreached[i]) = LevelOf(unreached[j]) => i = j
            /\ \A j \in DOMAIN unreached :
                   \A r \in Reached(request) : LevelOf(unreached[j]) # LevelOf(r)

\* C26 witness: two steps were left unreached below a traversal of one root.
C26_Witness ==
    /\ FlowBuilt
    /\ Len(UnreachedInKeyOrder(request)) = 2
    /\ MaxReachedLevel = 0
    /\ LevelOf(UnreachedInKeyOrder(request)[2]) = 2

\* C28: a resolved connection u -> v between reached steps has
\* level(v) <= level(u) + 1, and with at least one step the levels in use
\* are 0 .. the largest level, none empty.
C28_LevelsStepByOneAndContiguous ==
    (FlowBuilt /\ Len(request.data.steps) > 0) =>
        LET conns == OrEmpty(Field(request.data, "connections")).items
            levelsInUse == {LevelOf(id) : id \in StepIdsOf(request)}
        IN  /\ \A k \in DOMAIN conns :
                   (conns[k].from \in Reached(request) /\ conns[k].to \in Reached(request)) =>
                       LevelOf(conns[k].to) <= LevelOf(conns[k].from) + 1
            /\ levelsInUse = 0..Max(levelsInUse)

\* C28 witness: a chain a -> b -> 1 with the edge a -> 1 beside it was laid
\* out: b and 1 on level 1, the edge b -> 1 staying within a level.
C28_Witness ==
    /\ FlowBuilt
    /\ request.data.connections = <<Conn("a", "b", <<>>), Conn("b", "1", <<>>), Conn("a", "1", <<>>)>>
    /\ DeclaredOrder(request) = <<"a", "b", "1">>
    /\ LevelOf("a") = 0 /\ LevelOf("b") = 1 /\ LevelOf("1") = 1

----------------------------------------------------------------------------
(* Element order: C27 *)

\* C27: whichever builder produced a document and whatever ids the
\* generator had handed out before, the elements stand in strictly
\* increasing id order and their ids are consecutive: from the counter's
\* value when the build began up to its value at the end, none left out.
C27_IdsAscendingAndContiguous ==
    ((pc = "returned" /\ response = Success) \/ pc = "save") =>
        /\ \A k \in DOMAIN elements : elements[k].id = cellId - Len(elements) + (k - 1)
        /\ \A k \in DOMAIN elements : k > 1 => elements[k].id = elements[k - 1].id + 1
        /\ Elements(xmlContent) = elements
        /\ cellId - Len(elements) >= 2

\* C27 witness: a sequence diagram with a drawn interaction (two anchor
\* points with ids allocated ahead of their cells) was built after the
\* generator had handed out ids.
C27_Witness ==
    /\ pc = "returned" /\ response = Success
    /\ request.type = "sequence"
    /\ Len(elements) = 7
    /\ elements[1].id = 3 /\ elements[7].id = 9 /\ elements[7].edge

----------------------------------------------------------------------------
(* Sequence diagrams: C24 *)

\* Here createSequenceDiagram is called on a fresh generator with up to
\* MaxInteractions interactions among declared and undeclared participants.

SeqInteractionChoices ==
    {Interaction(from, to, <<"m">>, FALSE) : from \in ReferredIds, to \in ReferredIds}

SequenceCalls ==
    {BuilderCall("sequence", [participants |-> p, interactions |-> i]) :
        p \in SeqsUpTo(DeclaredIds, MaxSteps),
        i \in SeqsUpTo(SeqInteractionChoices, MaxInteractions)}

InitSequence ==
    /\ cellId = 2
    /\ request \in SequenceCalls
    /\ pc = "call"
    /\ xmlContent = EmptyText
    /\ response = NoResponse
    /\ files = <<>>
    /\ now = 0
    /\ fullPath = <<>>
    /\ served = <<>>
    /\ filesAtCall = <<>>
    /\ elements = <<>>

NextSequence == BuildSequence

SpecSequence == InitSequence /\ [][NextSequence]_vars

\* The 1-based positions, in declared order, of the interactions that are
\* drawn: those whose two participant lookups give something.
DrawnPositions(call) ==
    LET known == Range(call.data.participants) \cup ObjectPrototypeKeys
        all == [i \in DOMAIN call.data.interactions |-> i]
    IN  SelectSeq(all, LAMBDA i : /\ call.data.interactions[i].from \in known
                                  /\ call.data.interactions[i].to \in known)

\* The five elements drawn for the j-th drawn interaction (1-based).
InteractionBlock(j) ==
    SubSeq(elements, Len(request.data.participants) + 5 * (j - 1) + 1,
                     Len(request.data.participants) + 5 * j)

\* Every drawn element of interaction blocks lies within the lifelines,
\* which span y = 50 .. 50 + 60 * n + 100 for n declared interactions.
WithinLifelines ==
    LET n == Len(request.data.interactions)
    IN  \A k \in DOMAIN elements :
            (elements[k].vertex /\ k > Len(request.data.participants)) =>
                /\ elements[k].y >= 50
                /\ elements[k].y + elements[k].height <= 50 + 60 * n + 100

SequenceBuilt == pc = "returned" /\ request.type = "sequence" /\ response = Success

\* C24 as stated: the interaction at 0-based position i of the declared
\* list is drawn at y = 130 + 60 * i, and every drawn interaction lies
\* within the vertical extent of the lifelines.
C24_OffsetPerDeclaredInteraction ==
    SequenceBuilt =>
        LET drawn == DrawnPositions(request)
        IN  /\ Len(elements) = Len(request.data.participants) + 5 * Len(drawn)
            /\ \A j \in DOMAIN drawn :
                   /\ InteractionBlock(j)[1].y = 130 + 60 * (drawn[j] - 1)
                   /\ InteractionBlock(j)[2].y = 130 + 60 * (drawn[j] - 1)
            /\ WithinLifelines

\* C24 amended: the j-th interaction that is drawn (0-based, counting only
\* the drawn ones) is drawn at y = 130 + 60 * j; the lifelines are sized
\* for all declared interactions, and every drawn interaction lies within
\* their vertical extent.
C24_OffsetPerDrawnInteraction ==
    SequenceBuilt =>
        LET drawn == DrawnPositions(request)
        IN  /\ Len(elements) = Len(request.data.participants) + 5 * Len(drawn)
            /\ \A j \in DOMAIN drawn :
                   /\ InteractionBlock(j)[1].y = 130 + 60 * (j - 1)
                   /\ InteractionBlock(j)[2].y = 130 + 60 * (j - 1)
                   /\ InteractionBlock(j)[5].edge
            /\ \A k \in DOMAIN request.data.participants :
                   elements[k].y = 50
                   /\ elements[k].height = 60 * Len(request.data.interactions) + 100
            /\ WithinLifelines

\* C24 witness: of two declared interactions the first names an undeclared
\* participant and the second, a -> b, is drawn at y = 130.
C24_Witness ==
    /\ SequenceBuilt
    /\ request.data.participants = <<"a", "b">>
    /\ Len(request.data.interactions) = 2
    /\ request.data.interactions[1].from = "x"
    /\ DrawnPositions(request) = <<2>>
    /\ InteractionBlock(1)[1].y = 130

----------------------------------------------------------------------------
(* Entity-relationship diagrams: C25 *)

\* Here createERD is called on a fresh generator with up to MaxEntities
\* entities, enough for the grid to wrap, and relationships among declared
\* and undeclared entity ids.

ErdIds == <<"a", "b", "c", "d", "e", "f", "g">>

ErdAttributeChoices == {<<>>, <<<<"k">>, <<"n">>>>}

ErdEntityLists ==
    UNION {{[i \in 1..n |-> Entity(ErdIds[i], <<ErdIds[i]>>, attrs[i])] :
               attrs \in [1..n -> ErdAttributeChoices]} : n \in 0..MaxEntities}

ErdRelationshipChoices ==
    {Conn(from, to, <<>>) : from \in {"a", "d", "x", "constructor"},
                            to \in {"a", "d", "x", "constructor"}}

ErdCalls ==
    {BuilderCall("erd", [entities |-> e, relationships |-> r]) :
        e \in ErdEntityLists, r \in SeqsUpTo(ErdRelationshipChoices, MaxConns)}

InitERD ==
    /\ cellId = 2
    /\ request \in ErdCalls
    /\ pc = "call"
    /\ xmlContent = EmptyText
    /\ response = NoResponse
    /\ files = <<>>
    /\ now = 0
    /\ fullPath = <<>>
    /\ served = <<>>
    /\ filesAtCall = <<>>
    /\ elements = <<>>

NextERD == BuildERD

SpecERD == InitERD /\ [][NextERD]_vars

\* Where the header of the i-th entity (1-based) stands in the element list.
RECURSIVE HeaderIndex(_, _)
HeaderIndex(entities, i) ==
    IF i = 1 THEN 1
    ELSE HeaderIndex(entities, i - 1) + 1 + Len(entities[i - 1].attributes)

\* The header element of the entity with the given id.
HeaderOf(id) ==
    LET entities == request.data.entities
        i == CHOOSE i \in DOMAIN entities : entities[i].id = id
    IN  elements[HeaderIndex(entities, i)]

\* The headers and attributes of an ERD stand on the grid: entity i
\* (0-based) at x = 100 + 250 * (i mod 3), y = 100 + 200 * (i div 3), its
\* k-th attribute (0-based) at the same x and y + 30 + 26 * k.
ErdOnGrid ==
    LET entities == request.data.entities
    IN  \A i \in DOMAIN entities :
            LET at == HeaderIndex(entities, i)
                x == 100 + 250 * ((i - 1) % 3)
                y == 100 + 200 * ((i - 1) \div 3)
            IN  /\ elements[at].vertex
                /\ elements[at].x = x /\ elements[at].y = y
                /\ \A k \in DOMAIN entities[i].attributes :
                       /\ elements[at + k].vertex
                       /\ elements[at + k].x = x
                       /\ elements[at + k].y = y + 30 + 26 * (k - 1)

\* C25: the entities of an ERD stand on the grid, three to a row, each
\* attribute directly below its header, and every relationship edge joins
\* the header elements of the two entities it names.
C25_ErdGridAndHeaderEdges ==
    (pc = "returned" /\ request.type = "erd" /\ response = Success) =>
        LET entities == request.data.entities
            declaredIds == {entities[i].id : i \in DOMAIN entities}
            drawn == Edges(elements)
        IN  /\ ErdOnGrid
            /\ \A k \in DOMAIN drawn :
                   \E from \in declaredIds, to \in declaredIds :
                       /\ drawn[k].source = HeaderOf(from).id
                       /\ drawn[k].target = HeaderOf(to).id
                       /\ \E r \in DOMAIN request.data.relationships :
                              /\ request.data.relationships[r].from = from
                              /\ request.data.relationships[r].to = to

----------------------------------------------------------------------------
(* Duplicate step ids: C29 *)

\* Here createFlowchart is called on a fresh generator without connections
\* on up to MaxDeclared steps whose ids repeat, are omitted, or name the
\* prototype slot. The step at position i is labelled with the digit i, so
\* that a vertex tells which declaration it was drawn from.

StepIdChoices == {"a", "", "1", "__proto__"}

StepTypeChoices == {"", "decision"}

DeclaredStepLists ==
    UNION {{[i \in 1..n |-> Step(ids[i], <<Digits[i]>>, types[i], NoNum, NoNum, <<>>)] :
               ids \in [1..n -> StepIdChoices], types \in [1..n -> StepTypeChoices]} :
           n \in 0..MaxDeclared}

StepsCalls == {BuilderCall("flowchart", [steps |-> s]) : s \in DeclaredStepLists}

InitSteps ==
    /\ cellId = 2
    /\ request \in StepsCalls
    /\ pc = "call"
    /\ xmlContent = EmptyText
    /\ response = NoResponse
    /\ files = <<>>
    /\ now = 0
    /\ fullPath = <<>>
    /\ served = <<>>
    /\ filesAtCall = <<>>
    /\ elements = <<>>

NextSteps == BuildFlowchart

SpecSteps == InitSteps /\ [][NextSteps]_vars

\* The distinct effective ids of the declared steps.
EffectiveIds(steps) == {effectiveId(steps, i) : i \in DOMAIN steps}

\* The last declared step with the effective id k.
LastDeclared(steps, k) == steps[Max({i \in DOMAIN steps : effectiveId(steps, i) = k})]

\* The flowchart has one vertex for each of the given effective ids and no
\* other, each carrying the label and the kind of the last step declared
\* with its id.
OneVertexEach(ids) ==
    LET steps == request.data.steps
        placed == Vertices(Elements(xmlContent))
    IN  /\ Len(placed) = Cardinality(ids)
        /\ \A k \in ids :
               LET last == LastDeclared(steps, k)
                   drawn == SelectSeq(placed, LAMBDA v : v.value = last.label)
               IN  /\ Len(drawn) = 1
                   /\ drawn[1].style = shapeStyle(IF last.type = "" THEN "process" ELSE last.type)

\* C29: a flowchart has exactly one vertex for each distinct effective step
\* id; steps declared with the same effective id collapse into that one
\* vertex, which carries the label and the kind of the last of them.
C29_OneVertexPerEffectiveId ==
    FlowBuilt => OneVertexEach(EffectiveIds(request.data.steps))

----------------------------------------------------------------------------
(* Connections that resolve nothing: C30 *)

\* A connection one of whose endpoints is no declared step.
UnknownEndpoint(steps, conn) ==
    conn.from \notin EffectiveIds(steps) \/ conn.to \notin EffectiveIds(steps)

\* C30: when connections are declared, there is at least one, and each has
\* an endpoint that is no declared step, the flowchart is built without the
\* sequential chain: every step is a root on level 0 and there is no edge.
C30_UnresolvedConnectionsLeaveRootsOnly ==
    LET steps == request.data.steps
        conns == OrEmpty(Field(request.data, "connections")).items
    IN  (/\ pc = "returned" /\ request.type = "flowchart"
         /\ Len(conns) > 0
         /\ \A k \in DOMAIN conns : UnknownEndpoint(steps, conns[k])) =>
            /\ response = Success
            /\ Edges(Elements(xmlContent)) = <<>>
            /\ Len(Vertices(Elements(xmlContent))) = Cardinality(EffectiveIds(steps))
            /\ \A k \in DOMAIN Vertices(Elements(xmlContent)) :
                   Vertices(Elements(xmlContent))[k].y = flowStartY

====
